---- MODULE Spec2Model ----
(***************************************************************************)
(* Model of the resilience layer of the feature-flag SDK:                  *)
(*   - the error boundary (src/error_boundary.go): the capture* wrappers,  *)
(*     ebRecover, logException and its dedup set `seen`;                   *)
(*   - the transport (src/transport.go): postRequest,                      *)
(*     retryablePostRequest, postRequestInternal, get and the retry loop;  *)
(*   - the diagnostics timelines (src/diagnostics.go): the marker          *)
(*     builders, mark, serialize and clearMarkers.                         *)
(* Each component has its own specification over the shared variables.     *)
(***************************************************************************)
EXTENDS Integers, Sequences, FiniteSets, TLC

\* Number of goroutines calling into one error boundary.
NumGoroutines == 2
\* Number of calls made on the error boundary over a behaviour.
MaxCalls == 2
\* Largest retry budget handed to retryablePostRequest.
MaxBudget == 11
\* Number of mark() calls made on the diagnostics over a behaviour.
MaxMarks == 4
\* Last second the wall clock reaches.
MaxClock == 1

Goroutines == 1..NumGoroutines

VARIABLES
    apiValid,    \* errorBoundary.api + endpoint parses as a URL (fixed at construction)
    seen,        \* errorBoundary.seen: the keys whose value is true
    posts,       \* client.Do calls of logException, counted per exception string
    logErrors,   \* calls of global.Logger().LogError made by ebRecover, per exception string
    apiMarkers,  \* markers appended by the wrappers' diagnostics calls, counted per marker
    frame,       \* per goroutine: the position in, and the locals of, its current call
    calls,       \* finished runs of logException, counted per exception string
    panics,      \* finished wrapper calls whose task panicked, per exception string
    last,        \* the call that finished last
    started,     \* number of calls made so far
    sendErrors,  \* the exception strings whose report client.Do failed to deliver
    localMode,   \* transport.options.LocalMode (fixed at construction)
    tpc,         \* position of the transport call: "idle", "retry" or "done"
    request,     \* the transport call: method, retry budget, whether the payload encodes
    retries,     \* retry(): the retries left
    backoff,     \* retry(): the next sleep, a time.Duration
    attempts,    \* number of requests handed to client.Do by the transport
    sleeps,      \* the durations handed to time.Sleep, in order
    firstOutcome, \* what doRequest returned first
    lastOutcome, \* what doRequest returned last
    firstOther,  \* the first attempt not answered by a retry-eligible status
    classes,     \* the classes of the outcomes so far
    result,      \* the (response, error) pair the call returned
    clock,       \* time.Now().Unix(): the wall clock, in seconds
    heap,        \* the backing arrays of the markers slices that are reachable
    base,        \* the two diagnosticsBase objects: context and markers (a slice header)
    mu,          \* diagnosticsBase.mu of each: the goroutine holding the write lock, or 0
    dframe,      \* per goroutine inside mark(): its position and its locals
    snapshot,    \* what serialize() returned last
    lockCount,   \* per diagnosticsBase: the number of times mark() took the write lock
    lockOrder,   \* per diagnosticsBase: the mark() calls in the order they took the lock since the last clear
    finished,    \* per diagnosticsBase: the mark() calls that ended since the last clear
    cleared,     \* per diagnosticsBase: the mark() calls whose entry clearMarkers() dropped
    clean,       \* per diagnosticsBase: clearMarkers() ran and no mark() appended since
    markCount,   \* number of mark() calls made so far
    dlast,       \* how the mark() call that ended last ended
    raced        \* per diagnosticsBase: a mark() stamped its marker while a call stamped earlier had not appended yet

ebVars == <<apiValid, seen, posts, logErrors, apiMarkers, frame, calls, panics, last, started,
           sendErrors>>

transportVars == <<localMode, tpc, request, retries, backoff, attempts, sleeps,
                   firstOutcome, lastOutcome, firstOther, classes, result>>

diagVars == <<clock, heap, base, mu, dframe, snapshot, lockCount, lockOrder, finished,
              cleared, clean, markCount, dlast, raced>>

vars == <<ebVars, transportVars, diagVars>>

-----------------------------------------------------------------------------
(* Values *)

\* Go values that reach the boundary: a nil error, an error with a message,
\* a string, or some other value handed to panic().
Nil == [kind |-> "nil", msg |-> ""]
ErrorValue(m) == [kind |-> "error", msg |-> m]
StringValue(m) == [kind |-> "string", msg |-> m]
OtherValue == [kind |-> "other", msg |-> "42"]

\* The exceptions handed to logException directly.
Exceptions == {Nil, ErrorValue("boom"), ErrorValue("Unknown")}
\* The (non-nil) values a wrapped task panics with.
PanicValues == {StringValue("boom"), ErrorValue("bang"), OtherValue}
\* Every string logException can compute from them.
Signatures == {"Unknown", "boom", "bang"}

\* What client.Do(req) of logException can come to: the collector took the
\* report, or the call returned an error or a failure status.
SendResults == {"delivered", "failed"}

\* The markers the wrappers mark.
ApiMarkers ==
    [key : {"check_gate", "get_config", "get_layer"}, action : {"start"}, success : {"unset"}]
    \cup [key : {"check_gate", "get_config", "get_layer"}, action : {"end"},
          success : {"true", "false"}]

\* The builder chains of the wrappers: api().<key>().start(), and
\* api().<key>().end().success(val).
StartMarker(k) == [key |-> k, action |-> "start", success |-> "unset"]
EndMarker(k, val) == [key |-> k, action |-> "end", success |-> val]

DiagnosticWrappers == {"captureCheckGate", "captureGetConfig", "captureGetLayer"}
Wrappers == DiagnosticWrappers \cup {"captureGetClientInitializeResponse", "captureVoid"}

\* The zero value of each wrapper's result type.
ZeroValue(w) ==
    CASE w = "captureCheckGate" -> "false"
      [] w = "captureGetConfig" -> "DynamicConfig{}"
      [] w = "captureGetLayer" -> "Layer{}"
      [] w = "captureGetClientInitializeResponse" -> "ClientInitializeResponse{}"
      [] OTHER -> "void"

\* What a task of each wrapper can return.
TaskValues(w) ==
    CASE w = "captureCheckGate" -> {"true"}
      [] w = "captureGetConfig" -> {"DynamicConfig{test_config}"}
      [] w = "captureGetLayer" -> {"Layer{a_layer}"}
      [] w = "captureGetClientInitializeResponse" -> {"ClientInitializeResponse{gates}"}
      [] OTHER -> {"void"}

\* The diagnostics key each instrumented wrapper marks.
WrapperKey(w) ==
    CASE w = "captureCheckGate" -> "check_gate"
      [] w = "captureGetConfig" -> "get_config"
      [] OTHER -> "get_layer"

idleFrame ==
    [pc |-> "idle", op |-> "none", exceptionString |-> "", panic |-> Nil,
     panicked |-> FALSE, task |-> "", res |-> "", sent |-> FALSE, logged |-> 0,
     marks |-> <<>>, returned |-> "none"]

-----------------------------------------------------------------------------
(* Error boundary: pure parts *)

\* logException, lines 115-120: the string the exception renders to.
exceptionStringOf(exception) ==
    IF exception = Nil THEN "Unknown" ELSE exception.msg

\* checkSeen under seenLock: the returned flag and the map afterwards.
checkSeenNoInsert(seenMap, s) ==
    [ret |-> s \in seenMap, seen |-> seenMap]
checkSeenAlwaysTrue(seenMap, s) ==
    [ret |-> TRUE, seen |-> seenMap \cup {s}]
checkSeenAlwaysFalse(seenMap, s) ==
    [ret |-> FALSE, seen |-> seenMap \cup {s}]
checkSeen(seenMap, s) ==
    [ret |-> s \in seenMap, seen |-> seenMap \cup {s}]

\* recover() called by the deferred function itself returns the value of the
\* panic in flight and stops the unwinding.
recoverNested(p) == Nil
recover(p) == p

\* toError: an error is itself, a string becomes an error with that message,
\* anything else is no error object.
toError(err) ==
    IF err.kind = "error" THEN err
    ELSE IF err.kind = "string" THEN ErrorValue(err.msg)
    ELSE Nil

\* global.Logger().LogError(err) in ebRecover: one call per recovered panic.
LogErrorWhenSent(n, f) == IF f.sent THEN n + 1 ELSE n
LogError(n, f) == n + 1

\* marker.mark on the wrappers' timeline: the marker is appended (the timeline
\* is kept as the number of times each marker is in it).
markApiTwice(markers, m) == [markers EXCEPT ![m] = @ + 2]
markApi(markers, m) == [markers EXCEPT ![m] = @ + 1]

\* client.Do(req) in logException: one POST for the exception string.
clientDo(p, s) == [p EXCEPT ![s] = @ + 1]

-----------------------------------------------------------------------------
(* Error boundary: steps of a goroutine *)

CanStart(g) ==
    /\ frame[g].pc = "idle"
    /\ started < MaxCalls

\* The call of goroutine g ends with frame f: it becomes the last finished call.
Finish(g, f, how) ==
    /\ frame' = [frame EXCEPT ![g] = idleFrame]
    /\ last' = [f EXCEPT !.pc = "idle", !.panic = Nil, !.returned = how]
    /\ calls' = IF f.exceptionString \in Signatures
                THEN [calls EXCEPT ![f.exceptionString] = @ + 1]
                ELSE calls
    /\ panics' = IF f.panicked /\ f.exceptionString \in Signatures
                 THEN [panics EXCEPT ![f.exceptionString] = @ + 1]
                 ELSE panics

\* logException returns: to its caller when called directly, into ebRecover
\* when called from there.
ReturnFromLogException(g, f) ==
    IF f.op = "logException"
    THEN Finish(g, f, "normal")
    ELSE /\ frame' = [frame EXCEPT ![g] = [f EXCEPT !.pc = "logError"]]
         /\ UNCHANGED <<last, calls, panics>>

\* A direct call logException(exception), lines 114-120.
logException(g, exception) ==
    /\ CanStart(g)
    /\ started' = started + 1
    /\ frame' = [frame EXCEPT ![g] =
                    [idleFrame EXCEPT !.pc = "checkSeen", !.op = "logException",
                                      !.exceptionString = exceptionStringOf(exception)]]
    /\ UNCHANGED <<apiValid, seen, posts, logErrors, apiMarkers, calls, panics, last, sendErrors>>
    /\ UNCHANGED transportVars
    /\ UNCHANGED diagVars

\* logException, lines 121-123: the dedup check.
logExceptionCheckSeen(g) ==
    /\ frame[g].pc = "checkSeen"
    /\ LET r == checkSeen(seen, frame[g].exceptionString) IN
         /\ seen' = r.seen
         /\ IF r.ret
            THEN ReturnFromLogException(g, frame[g])
            ELSE /\ frame' = [frame EXCEPT ![g].pc = "report"]
                 /\ UNCHANGED <<last, calls, panics>>
    /\ UNCHANGED <<apiValid, posts, logErrors, apiMarkers, started, sendErrors>>
    /\ UNCHANGED transportVars
    /\ UNCHANGED diagVars

\* logException, lines 124-146: the report is built and sent. json.Marshal of
\* two strings cannot fail; http.NewRequest fails when the URL does not parse.
\* The result r of client.Do is dropped: nothing the code keeps depends on it.
logExceptionSendForgetting(g, r) ==
    /\ frame[g].pc = "report"
    /\ IF apiValid
       THEN /\ posts' = clientDo(posts, frame[g].exceptionString)
            /\ sendErrors' = IF r = "failed"
                             THEN sendErrors \cup {frame[g].exceptionString}
                             ELSE sendErrors
            /\ seen' = IF r = "failed" THEN seen \ {frame[g].exceptionString} ELSE seen
            /\ ReturnFromLogException(g, [frame[g] EXCEPT !.sent = TRUE])
       ELSE /\ UNCHANGED <<posts, sendErrors>>
            /\ seen' = seen \ {frame[g].exceptionString}
            /\ ReturnFromLogException(g, frame[g])
    /\ UNCHANGED <<apiValid, logErrors, apiMarkers, started>>
    /\ UNCHANGED transportVars
    /\ UNCHANGED diagVars
logExceptionSend(g, r) ==
    /\ frame[g].pc = "report"
    /\ IF apiValid
       THEN /\ posts' = clientDo(posts, frame[g].exceptionString)
            /\ sendErrors' = IF r = "failed"
                             THEN sendErrors \cup {frame[g].exceptionString}
                             ELSE sendErrors
            /\ ReturnFromLogException(g, [frame[g] EXCEPT !.sent = TRUE])
       ELSE /\ UNCHANGED <<posts, sendErrors>>
            /\ ReturnFromLogException(g, frame[g])
    /\ UNCHANGED <<apiValid, seen, logErrors, apiMarkers, started>>
    /\ UNCHANGED transportVars
    /\ UNCHANGED diagVars

\* A wrapper is entered: ebRecover is deferred, the start marker is marked
\* (diagnostic wrappers only) and the task is called.
capture(g, w) ==
    /\ CanStart(g)
    /\ started' = started + 1
    /\ frame' = [frame EXCEPT ![g] =
                    [idleFrame EXCEPT !.pc = "task", !.op = w, !.res = ZeroValue(w),
                                      !.marks = IF w \in DiagnosticWrappers
                                                THEN <<StartMarker(WrapperKey(w))>>
                                                ELSE <<>>]]
    /\ apiMarkers' =
          IF w \in DiagnosticWrappers
          THEN markApi(apiMarkers, StartMarker(WrapperKey(w)))
          ELSE apiMarkers
    /\ UNCHANGED <<apiValid, seen, posts, logErrors, calls, panics, last, sendErrors>>
    /\ UNCHANGED transportVars
    /\ UNCHANGED diagVars

\* The task returns v: the end marker is marked with success(true), the
\* wrapper returns v, and the deferred ebRecover finds nothing to recover.
taskReturns(g, v) ==
    /\ frame[g].pc = "task"
    /\ v \in TaskValues(frame[g].op)
    /\ apiMarkers' =
          IF frame[g].op \in DiagnosticWrappers
          THEN markApi(apiMarkers, EndMarker(WrapperKey(frame[g].op), "true"))
          ELSE apiMarkers
    /\ Finish(g, [frame[g] EXCEPT !.task = v, !.res = v,
                                  !.marks = IF frame[g].op \in DiagnosticWrappers
                                            THEN Append(@, EndMarker(WrapperKey(frame[g].op), "true"))
                                            ELSE @], "normal")
    /\ UNCHANGED <<apiValid, seen, posts, logErrors, started, sendErrors>>
    /\ UNCHANGED transportVars
    /\ UNCHANGED diagVars

\* The task panics with p: the wrapper unwinds into its deferred call.
taskPanics(g, p) ==
    /\ frame[g].pc = "task"
    /\ frame' = [frame EXCEPT ![g] = [@ EXCEPT !.pc = "deferred", !.panic = p, !.panicked = TRUE]]
    /\ UNCHANGED <<apiValid, seen, posts, logErrors, apiMarkers, calls, panics, last, started,
                   sendErrors>>
    /\ UNCHANGED transportVars
    /\ UNCHANGED diagVars

\* ebRecover, lines 107-108: recover(), then logException(toError(err)).
\* When recover() yields nothing the panic keeps unwinding into the caller.
ebRecoverMarkingFirst(g) ==
    /\ frame[g].pc = "deferred"
    /\ frame' = [frame EXCEPT ![g] =
                    [@ EXCEPT !.pc = "checkSeen", !.panic = Nil,
                              !.exceptionString = exceptionStringOf(toError(frame[g].panic)),
                              !.marks = IF frame[g].op \in DiagnosticWrappers
                                        THEN Append(@, EndMarker(WrapperKey(frame[g].op), "false"))
                                        ELSE @]]
    /\ apiMarkers' =
          IF frame[g].op \in DiagnosticWrappers
          THEN markApi(apiMarkers, EndMarker(WrapperKey(frame[g].op), "false"))
          ELSE apiMarkers
    /\ UNCHANGED <<apiValid, seen, posts, logErrors, last, calls, panics, started, sendErrors>>
    /\ UNCHANGED transportVars
    /\ UNCHANGED diagVars
ebRecover(g) ==
    /\ frame[g].pc = "deferred"
    /\ LET err == recover(frame[g].panic) IN
         IF err # Nil
         THEN /\ frame' = [frame EXCEPT ![g] =
                            [@ EXCEPT !.pc = "checkSeen", !.panic = Nil,
                                      !.exceptionString = exceptionStringOf(toError(err))]]
              /\ UNCHANGED <<last, calls, panics>>
         ELSE /\ frame' = [frame EXCEPT ![g] = [idleFrame EXCEPT !.pc = "crashed"]]
              /\ last' = [frame[g] EXCEPT !.pc = "idle", !.panic = Nil, !.returned = "panic"]
              /\ UNCHANGED <<calls, panics>>
    /\ UNCHANGED <<apiValid, seen, posts, logErrors, apiMarkers, started, sendErrors>>
    /\ UNCHANGED transportVars
    /\ UNCHANGED diagVars

\* ebRecover, lines 109-110: LogError(err), then the recover callback (the
\* end marker with success(false) for the diagnostic wrappers); the wrapper
\* then returns the zero value of its result.
ebRecoverLog(g) ==
    /\ frame[g].pc = "logError"
    /\ logErrors' = [logErrors EXCEPT ![frame[g].exceptionString] = LogError(@, frame[g])]
    /\ apiMarkers' =
          IF frame[g].op \in DiagnosticWrappers
          THEN markApi(apiMarkers, EndMarker(WrapperKey(frame[g].op), "false"))
          ELSE apiMarkers
    /\ Finish(g, [frame[g] EXCEPT !.logged = LogError(@, frame[g]),
                                  !.marks = IF frame[g].op \in DiagnosticWrappers
                                            THEN Append(@, EndMarker(WrapperKey(frame[g].op), "false"))
                                            ELSE @], "normal")
    /\ UNCHANGED <<apiValid, seen, posts, started, sendErrors>>
    /\ UNCHANGED transportVars
    /\ UNCHANGED diagVars

-----------------------------------------------------------------------------
(* Transport: values *)

maxRetries == 5
backoffMultiplier == 10

\* A time.Duration is a 64-bit count of nanoseconds, kept here as four 16-bit
\* limbs, least significant first. Arithmetic on it wraps as int64 does.
LimbBase == 2^16
SignLimb == 2^15
ZeroDuration == <<0, 0, 0, 0>>
\* time.Second: 1000000000 ns = 15258 * 65536 + 51712.
Second == <<51712, 15258, 0, 0>>

RECURSIVE MulLimbs(_, _, _)
MulLimbs(d, m, carry) ==
    IF d = <<>> THEN <<>>
    ELSE LET x == Head(d) * m + carry IN
         <<x % LimbBase>> \o MulLimbs(Tail(d), m, x \div LimbBase)

\* d * m in int64 arithmetic: the carry out of the top limb is lost.
MulDuration(d, m) == MulLimbs(d, m, 0)

IsNegative(d) == d[4] >= SignLimb

\* The HTTP status codes a server answers with.
RetryStatusCodes == {408, 500, 502, 503, 504, 522, 524, 599}
StatusCodes == {200, 204, 299, 300, 304, 400, 401, 404, 429, 501} \cup RetryStatusCodes

NilResponse == [status |-> 0]
Response(c) == [status |-> c]

\* What transport.doRequest can return: a response and no error (for a 2xx,
\* with a body that decodes as JSON or not); no response and an error (the
\* request cannot be built, DNS, connection refused, timeout); or a response
\* together with an error (the client's redirect policy gave up).
Outcomes ==
    {[response |-> Response(c), err |-> "nil", json |-> TRUE] : c \in StatusCodes}
    \cup {[response |-> Response(c), err |-> "nil", json |-> FALSE] : c \in {200, 204}}
    \cup {[response |-> NilResponse, err |-> "transport error", json |-> TRUE],
          [response |-> Response(302), err |-> "stopped after 10 redirects", json |-> TRUE]}

NoOutcome == [response |-> NilResponse, err |-> "none", json |-> TRUE]

Is2xx(c) == c >= 200 /\ c < 300

-----------------------------------------------------------------------------
(* Transport: pure parts *)

\* shouldRetry, lines 145-152.
shouldRetryAlways(code) == TRUE
shouldRetry(code) ==
    CASE code \in {408, 500, 502, 503, 504, 522, 524, 599} -> TRUE
      [] OTHER -> FALSE

\* The closure handed to retry(), lines 85-97, applied to what doRequest
\* returned: the (response, retry, error) triple.
fnRetryDecodeError(o) ==
    IF o.err # "nil"
    THEN [response |-> o.response, retry |-> o.response # NilResponse, err |-> o.err]
    ELSE IF o.response.status >= 200 /\ o.response.status < 300
    THEN [response |-> o.response, retry |-> ~o.json,
          err |-> IF o.json THEN "nil" ELSE "json decode error"]
    ELSE [response |-> o.response, retry |-> shouldRetry(o.response.status),
          err |-> "http response error code"]
fn(o) ==
    IF o.err # "nil"
    THEN [response |-> o.response, retry |-> o.response # NilResponse, err |-> o.err]
    ELSE IF o.response.status >= 200 /\ o.response.status < 300
    THEN [response |-> o.response, retry |-> FALSE,
          err |-> IF o.json THEN "nil" ELSE "json decode error"]
    ELSE [response |-> o.response, retry |-> shouldRetry(o.response.status),
          err |-> "http response error code"]

\* postRequestInternal, lines 77-83: the returns taken before retry() is
\* entered. The LocalMode test comes first, json.Marshal second.
earlyReturnIgnoringLocalMode(lm, encodable) ==
    IF ~encodable
    THEN [taken |-> TRUE, response |-> NilResponse, err |-> "json encode error"]
    ELSE [taken |-> FALSE, response |-> NilResponse, err |-> "none"]
earlyReturnIgnoringMarshalError(lm, encodable) ==
    IF lm
    THEN [taken |-> TRUE, response |-> NilResponse, err |-> "nil"]
    ELSE [taken |-> FALSE, response |-> NilResponse, err |-> "none"]
earlyReturn(lm, encodable) ==
    IF lm
    THEN [taken |-> TRUE, response |-> NilResponse, err |-> "nil"]
    ELSE IF ~encodable
    THEN [taken |-> TRUE, response |-> NilResponse, err |-> "json encode error"]
    ELSE [taken |-> FALSE, response |-> NilResponse, err |-> "none"]

\* retry(), line 132: no retry is left.
retriesExhaustedOffByOne(n) == n < 0
retriesExhausted(n) == n <= 0

\* retry(), line 138: the backoff grows.
nextBackoff(b) == MulDuration(b, backoffMultiplier)

-----------------------------------------------------------------------------
(* Transport: steps of one call *)

\* The class of an outcome, as the specification words it.
Class(o) ==
    IF o.err # "nil"
    THEN (IF o.response = NilResponse THEN "transport error" ELSE "redirect error")
    ELSE IF Is2xx(o.response.status) THEN "2xx"
    ELSE IF o.response.status \in RetryStatusCodes THEN "retry-eligible"
    ELSE "terminal"

\* postRequestInternal, lines 77-85: the local-mode and encoding exits, or
\* the entry into retry().
postRequestInternal(op, encodable, budget, b) ==
    /\ tpc = "idle"
    /\ request' = [op |-> op, budget |-> budget, encodable |-> encodable, backoff |-> b]
    /\ LET early == earlyReturn(localMode, encodable) IN
         IF early.taken
         THEN /\ tpc' = "done"
              /\ result' = [response |-> early.response, err |-> early.err]
              /\ UNCHANGED <<retries, backoff>>
         ELSE /\ tpc' = "retry"
              /\ retries' = budget
              /\ backoff' = b
              /\ UNCHANGED result
    /\ UNCHANGED <<localMode, attempts, sleeps, firstOutcome, lastOutcome, firstOther, classes>>
    /\ UNCHANGED ebVars
    /\ UNCHANGED diagVars

\* postRequest, lines 53-59.
postRequest(encodable) ==
    postRequestInternal("postRequest", encodable, 0, ZeroDuration)

\* retryablePostRequest, lines 61-68.
retryablePostRequest(encodable, budget) ==
    postRequestInternal("retryablePostRequest", encodable, budget, Second)

\* get, lines 116-127: the GET is built (which fails when the URL does not
\* parse) and handed to client.Do; what that returns is returned as it is.
\* options.LocalMode is not read.
get(urlValid, o) ==
    /\ tpc = "idle"
    /\ request' = [op |-> "get", budget |-> 0, encodable |-> TRUE, backoff |-> ZeroDuration]
    /\ tpc' = "done"
    /\ IF urlValid
       THEN /\ attempts' = attempts + 1
            /\ result' = [response |-> o.response, err |-> o.err]
       ELSE /\ attempts' = attempts
            /\ result' = [response |-> NilResponse, err |-> "request error"]
    /\ UNCHANGED <<localMode, retries, backoff, sleeps, firstOutcome, lastOutcome,
                   firstOther, classes>>
    /\ UNCHANGED ebVars
    /\ UNCHANGED diagVars

\* One round of the loop of retry(), lines 130-142: fn() is called (doRequest
\* returns o), and the call returns or sleeps and goes round again.
retry(o) ==
    /\ tpc = "retry"
    /\ attempts' = attempts + 1
    /\ firstOutcome' = IF attempts = 0 THEN o ELSE firstOutcome
    /\ lastOutcome' = o
    /\ classes' = classes \cup {Class(o)}
    /\ firstOther' = IF firstOther.index = 0 /\ Class(o) # "retry-eligible"
                     THEN [index |-> attempts + 1, outcome |-> o]
                     ELSE firstOther
    /\ LET r == fn(o) IN
         IF r.retry /\ ~retriesExhausted(retries)
         THEN /\ retries' = retries - 1
              /\ sleeps' = Append(sleeps, backoff)
              /\ backoff' = nextBackoff(backoff)
              /\ UNCHANGED <<tpc, result>>
         ELSE /\ tpc' = "done"
              /\ result' = [response |-> r.response, err |-> r.err]
              /\ UNCHANGED <<retries, backoff, sleeps>>
    /\ UNCHANGED <<localMode, request>>
    /\ UNCHANGED ebVars
    /\ UNCHANGED diagVars

-----------------------------------------------------------------------------
(* Diagnostics: values *)

\* The two diagnosticsBase objects newDiagnostics() allocates, named by the
\* fields of the diagnostics struct that point to them.
Bases == {"initDiagnostics", "syncDiagnostics"}

\* The context newDiagnostics() gives each.
ContextOf(b) == IF b = "initDiagnostics" THEN "initialize" ELSE "config_sync"

\* A marker: its pointer fields hold a value or are nil ("unset"). call and
\* builtBy are not fields of the Go struct: call n on a marker of a timeline
\* says its mark() was the n-th to take the lock of that timeline, and builtBy
\* names the method that created the builder.
ZeroMarker ==
    [Key |-> "unset", Step |-> "unset", Action |-> "unset", Timestamp |-> 0,
     Success |-> "unset", diagnostics |-> "nil", call |-> 0, builtBy |-> "none"]

\* diagnostics.initialize() and diagnostics.configSync(), lines 109-115.
configSyncOnInitTimeline ==
    [ZeroMarker EXCEPT !.diagnostics = "initDiagnostics", !.builtBy = "configSync"]
initialize ==
    [ZeroMarker EXCEPT !.diagnostics = "initDiagnostics", !.builtBy = "initialize"]
configSync ==
    [ZeroMarker EXCEPT !.diagnostics = "syncDiagnostics", !.builtBy = "configSync"]

Builders == {"initialize", "configSync"}
NewMarker(f) == IF f = "initialize" THEN initialize ELSE configSync
BuilderOf(b) == IF b = "initDiagnostics" THEN "initialize" ELSE "configSync"

\* What the chained setters (key, step, action, success) leave in a builder
\* that has a key and an action.
OverallStart ==
    [Key |-> "overall", Step |-> "unset", Action |-> "start", Success |-> "unset"]
Shapes ==
    {OverallStart,
     [Key |-> "overall", Step |-> "unset", Action |-> "end", Success |-> "true"],
     [Key |-> "download_config_specs", Step |-> "network_request", Action |-> "start",
      Success |-> "unset"],
     [Key |-> "download_config_specs", Step |-> "network_request", Action |-> "end",
      Success |-> "true"],
     [Key |-> "download_config_specs", Step |-> "process", Action |-> "end",
      Success |-> "false"],
     [Key |-> "download_config_specs", Step |-> "unset", Action |-> "start",
      Success |-> "unset"],
     [Key |-> "download_config_specs", Step |-> "network_request", Action |-> "end",
      Success |-> "unset"],
     [Key |-> "data_store_config_specs", Step |-> "fetch", Action |-> "end",
      Success |-> "false"],
     [Key |-> "bootstrap", Step |-> "unset", Action |-> "start", Success |-> "unset"],
     [Key |-> "get_id_list", Step |-> "network_request", Action |-> "end",
      Success |-> "true"]}

\* A slice header: the backing array (a key of heap, 0 for none), the
\* length and the capacity. nil tells a nil slice from an empty one.
NilSlice == [arr |-> 0, len |-> 0, cap |-> 0, nil |-> TRUE]
\* make([]marker, 0), lines 73 and 77.
EmptySlice == [arr |-> 0, len |-> 0, cap |-> 0, nil |-> FALSE]

\* The elements a slice header shows.
View(h, s) == IF s.len = 0 THEN <<>> ELSE SubSeq(h[s.arr], 1, s.len)

\* The map serialize() returns, with the diagnosticsBase it was called on,
\* the markers that one held at that moment, and whether it had just been
\* cleared.
NoSnapshot ==
    [taken |-> FALSE, of |-> "none", context |-> "", markers |-> NilSlice,
     held |-> <<>>, afterClear |-> FALSE]

-----------------------------------------------------------------------------
(* Diagnostics: pure parts *)

\* append(s, m) of Go, line 222: the element is written in place when the
\* capacity allows; otherwise a new array is allocated (the runtime doubles
\* the capacity of a small slice), the elements are copied and m is added.
\* The old array is left as it was.
Grown(h, s, m) ==
    LET newcap == IF s.cap = 0 THEN 1 ELSE 2 * s.cap IN
    [i \in 1..newcap |->
        IF i <= s.len THEN h[s.arr][i] ELSE IF i = s.len + 1 THEN m ELSE ZeroMarker]

\* The key a new array gets.
NewArray(h) == CHOOSE a \in 1..(Cardinality(DOMAIN h) + 1) : a \notin DOMAIN h

appendAtFront(h, s, m) ==
    [heap |-> h @@ (NewArray(h) :> (<<m>> \o View(h, s))),
     slice |-> [arr |-> NewArray(h), len |-> s.len + 1, cap |-> s.len + 1, nil |-> FALSE]]
append(h, s, m) ==
    IF s.len < s.cap
    THEN [heap |-> [h EXCEPT ![s.arr][s.len + 1] = m],
          slice |-> [s EXCEPT !.len = @ + 1]]
    ELSE [heap |-> h @@ (NewArray(h) :> Grown(h, s, m)),
          slice |-> [arr |-> NewArray(h), len |-> s.len + 1,
                     cap |-> Len(Grown(h, s, m)), nil |-> FALSE]]

\* The garbage collector: an array no slice header points to is gone.
Reachable(bs, snap, frames) ==
    ({bs[b].markers.arr : b \in Bases} \cup {snap.markers.arr}
        \cup {frames[g].loaded.arr : g \in DOMAIN frames}) \ {0}
Collect(h, bs, snap, frames) ==
    [a \in DOMAIN h \cap Reachable(bs, snap, frames) |-> h[a]]

\* clearMarkers, line 105: d.markers = nil.
resetMarkersKeeping(s) == s
resetMarkersTruncating(s) == [s EXCEPT !.len = 0]
resetMarkers(s) == NilSlice

\* sync.RWMutex: Lock() and RLock() go through when no writer holds the lock
\* (a reader holds it only within serialize, which is one step here).
lockFreeAlways(holder) == TRUE
lockFree(holder) == holder = 0

\* marker.logProcess, lines 226-280: the status line, or the nil pointer
\* dereference of a field that was not set.
Deref(x, then) == IF x = "unset" THEN [panics |-> TRUE, msg |-> ""] ELSE then
Line(s) == [panics |-> FALSE, msg |-> s]
StepLines(m, start, done, failed) ==
    Deref(m.Action,
        IF m.Action = "start" THEN Line(start)
        ELSE IF m.Action = "end"
        THEN Deref(m.Success, IF m.Success = "true" THEN Line(done) ELSE Line(failed))
        ELSE Line(""))
logProcess(m) ==
    Deref(m.Key,
      IF m.Key = "overall"
      THEN Deref(m.Action,
              IF m.Action = "start" THEN Line("Starting...")
              ELSE IF m.Action = "end" THEN Line("Done") ELSE Line(""))
      ELSE IF m.Key = "download_config_specs"
      THEN Deref(m.Step,
              IF m.Step = "network_request"
              THEN StepLines(m, "Loading specs from network...",
                             "Done loading specs from network",
                             "Failed to load specs from network")
              ELSE IF m.Step = "process"
              THEN StepLines(m, "Processing specs from network...",
                             "Done processing specs from network",
                             "No updates to specs from network")
              ELSE Line(""))
      ELSE IF m.Key = "data_store_config_specs"
      THEN Deref(m.Step,
              IF m.Step = "fetch"
              THEN StepLines(m, "Loading specs from adapter...",
                             "Done loading specs from adapter",
                             "Failed to load specs from adapter")
              ELSE IF m.Step = "process"
              THEN StepLines(m, "Processing specs from adapter...",
                             "Done processing specs from adapter",
                             "No updates to specs from adapter")
              ELSE Line(""))
      ELSE Line(""))

\* The markers a diagnosticsBase holds.
Timeline(b) == View(heap, base[b].markers)
\* The markers the last snapshot shows.
SnapshotMarkers == View(heap, snapshot.markers)

-----------------------------------------------------------------------------
(* Diagnostics: steps *)

\* The frames when goroutine g enters a call with frame f, and when it leaves.
Entered(frames, g, f) ==
    [h \in DOMAIN frames \cup {g} |-> IF h = g THEN f ELSE frames[h]]
Left(frames, g) == [h \in DOMAIN frames \ {g} |-> frames[h]]

\* A builder is created by initialize() or configSync(), the setters fill it,
\* and mark() is called: line 219 stamps it from the clock, in milliseconds,
\* before the lock is asked for.
mark(g, f, shape) ==
    /\ g \notin DOMAIN dframe
    /\ markCount < MaxMarks
    /\ markCount' = markCount + 1
    /\ dframe' = Entered(dframe, g,
                    [pc |-> "lock",
                     m |-> [NewMarker(f) EXCEPT !.Key = shape.Key, !.Step = shape.Step,
                                                !.Action = shape.Action,
                                                !.Success = shape.Success,
                                                !.Timestamp = clock * 1000],
                     loaded |-> NilSlice])
    /\ raced' = [raced EXCEPT ![NewMarker(f).diagnostics] =
                    @ \/ \E h \in DOMAIN dframe :
                            /\ dframe[h].m.diagnostics = NewMarker(f).diagnostics
                            /\ dframe[h].m.Timestamp < clock * 1000]
    /\ UNCHANGED <<clock, heap, base, mu, snapshot, lockCount, lockOrder, finished, cleared,
                   clean, dlast>>
    /\ UNCHANGED <<ebVars, transportVars>>

\* mark(), lines 220-222: the write lock is taken and the slice is read.
markLock(g) ==
    /\ g \in DOMAIN dframe
    /\ dframe[g].pc = "lock"
    /\ LET d == dframe[g].m.diagnostics IN
         /\ lockFree(mu[d])
         /\ mu' = [mu EXCEPT ![d] = g]
         /\ lockCount' = [lockCount EXCEPT ![d] = @ + 1]
         /\ lockOrder' = [lockOrder EXCEPT ![d] = Append(@, lockCount[d] + 1)]
         /\ dframe' = [dframe EXCEPT ![g] = [@ EXCEPT !.pc = "append",
                                                      !.m.call = lockCount[d] + 1,
                                                      !.loaded = base[d].markers]]
    /\ UNCHANGED <<clock, heap, base, snapshot, finished, cleared, clean, markCount, dlast,
                   raced>>
    /\ UNCHANGED <<ebVars, transportVars>>

\* mark(), lines 222-224: the copy of the marker is appended and the slice
\* stored, logProcess renders the status line (or panics: the entry stays),
\* and the deferred Unlock releases the lock.
markAppend(g) ==
    /\ g \in DOMAIN dframe
    /\ dframe[g].pc = "append"
    /\ LET d == dframe[g].m.diagnostics
           r == append(heap, dframe[g].loaded, dframe[g].m) IN
         /\ base' = [base EXCEPT ![d].markers = r.slice]
         /\ dframe' = Left(dframe, g)
         /\ heap' = Collect(r.heap, [base EXCEPT ![d].markers = r.slice], snapshot,
                            Left(dframe, g))
         /\ mu' = [mu EXCEPT ![d] = 0]
         /\ finished' = [finished EXCEPT ![d] = @ \cup {dframe[g].m.call}]
         /\ clean' = [clean EXCEPT ![d] = FALSE]
         /\ dlast' = IF logProcess(dframe[g].m).panics THEN "panic" ELSE "normal"
    /\ UNCHANGED <<clock, snapshot, lockCount, lockOrder, cleared, markCount, raced>>
    /\ UNCHANGED <<ebVars, transportVars>>

\* serialize, lines 93-100: under the read lock, the context and the markers
\* slice (the header, not a copy of the elements) are put in the map.
serialize(b) ==
    /\ lockFree(mu[b])
    /\ LET map == [taken |-> TRUE, of |-> b, context |-> base[b].context,
                   markers |-> base[b].markers, held |-> Timeline(b),
                   afterClear |-> clean[b]] IN
         /\ snapshot' = map
         /\ heap' = Collect(heap, base, map, dframe)
    /\ UNCHANGED <<clock, base, mu, dframe, lockCount, lockOrder, finished, cleared, clean,
                   markCount, dlast, raced>>
    /\ UNCHANGED <<ebVars, transportVars>>

\* clearMarkers, lines 102-106, under the write lock.
clearMarkers(b) ==
    /\ lockFree(mu[b])
    /\ base' = [base EXCEPT ![b].markers = resetMarkers(@)]
    /\ heap' = Collect(heap, [base EXCEPT ![b].markers = resetMarkers(@)], snapshot, dframe)
    /\ cleared' = [cleared EXCEPT ![b] =
                      @ \cup {Timeline(b)[i].call : i \in 1..Len(Timeline(b))}]
    /\ lockOrder' = [lockOrder EXCEPT ![b] = <<>>]
    /\ finished' = [finished EXCEPT ![b] = {}]
    /\ clean' = [clean EXCEPT ![b] = TRUE]
    /\ UNCHANGED <<clock, mu, dframe, snapshot, lockCount, markCount, dlast, raced>>
    /\ UNCHANGED <<ebVars, transportVars>>

\* A second passes.
TickEitherWay ==
    /\ clock' \in (0..MaxClock) \ {clock}
    /\ UNCHANGED <<heap, base, mu, dframe, snapshot, lockCount, lockOrder, finished, cleared,
                   clean, markCount, dlast, raced>>
    /\ UNCHANGED <<ebVars, transportVars>>
Tick ==
    /\ clock < MaxClock
    /\ clock' = clock + 1
    /\ UNCHANGED <<heap, base, mu, dframe, snapshot, lockCount, lockOrder, finished, cleared,
                   clean, markCount, dlast, raced>>
    /\ UNCHANGED <<ebVars, transportVars>>

-----------------------------------------------------------------------------
(* Initial states *)

ErrorBoundaryStart ==
    /\ seen = {}
    /\ posts = [s \in Signatures |-> 0]
    /\ logErrors = [s \in Signatures |-> 0]
    /\ apiMarkers = [m \in ApiMarkers |-> 0]
    /\ frame = [g \in Goroutines |-> idleFrame]
    /\ calls = [s \in Signatures |-> 0]
    /\ panics = [s \in Signatures |-> 0]
    /\ last = idleFrame
    /\ started = 0
    /\ sendErrors = {}

TransportStart ==
    /\ tpc = "idle"
    /\ request = [op |-> "none", budget |-> 0, encodable |-> TRUE, backoff |-> ZeroDuration]
    /\ retries = 0
    /\ backoff = ZeroDuration
    /\ attempts = 0
    /\ sleeps = <<>>
    /\ firstOutcome = NoOutcome
    /\ lastOutcome = NoOutcome
    /\ firstOther = [index |-> 0, outcome |-> NoOutcome]
    /\ classes = {}
    /\ result = [response |-> NilResponse, err |-> "none"]

\* newDiagnostics, lines 69-80, with no mark() call made yet.
DiagnosticsStart ==
    /\ clock = 0
    /\ heap = <<>>
    /\ base = [b \in Bases |-> [context |-> ContextOf(b), markers |-> EmptySlice]]
    /\ mu = [b \in Bases |-> 0]
    /\ dframe = <<>>
    /\ snapshot = NoSnapshot
    /\ lockCount = [b \in Bases |-> 0]
    /\ lockOrder = [b \in Bases |-> <<>>]
    /\ finished = [b \in Bases |-> {}]
    /\ cleared = [b \in Bases |-> {}]
    /\ clean = [b \in Bases |-> FALSE]
    /\ markCount = 0
    /\ dlast = "none"
    /\ raced = [b \in Bases |-> FALSE]

-----------------------------------------------------------------------------
(* Specifications of the error boundary *)

Init ==
    /\ apiValid \in BOOLEAN
    /\ ErrorBoundaryStart
    /\ localMode = FALSE
    /\ TransportStart
    /\ DiagnosticsStart

Step(g, results) ==
    \/ \E e \in Exceptions : logException(g, e)
    \/ logExceptionCheckSeen(g)
    \/ \E r \in results : logExceptionSend(g, r)
    \/ \E w \in Wrappers : capture(g, w)
    \/ \E v \in UNION {TaskValues(w) : w \in Wrappers} : taskReturns(g, v)
    \/ \E p \in PanicValues : taskPanics(g, p)
    \/ ebRecover(g)
    \/ ebRecoverLog(g)

Next == \E g \in Goroutines : Step(g, {"delivered"})

\* Any number of goroutines call into the boundary concurrently, and the
\* collector takes every report it is sent (logException drops the result of
\* client.Do, so a failed delivery would differ in sendErrors only).
Spec == Init /\ [][Next]_vars

NextSeq == Step(1, SendResults)

\* One goroutine: the calls happen in sequence, and a report that is sent is
\* delivered or not.
SeqSpec == Init /\ [][NextSeq]_vars

-----------------------------------------------------------------------------
(* Specification of the transport *)

TransportInit ==
    /\ apiValid = TRUE
    /\ ErrorBoundaryStart
    /\ localMode \in BOOLEAN
    /\ TransportStart
    /\ DiagnosticsStart

TransportNext ==
    \/ \E encodable \in BOOLEAN : postRequest(encodable)
    \/ \E encodable \in BOOLEAN, budget \in 0..MaxBudget :
          retryablePostRequest(encodable, budget)
    \/ \E o \in Outcomes : retry(o)
    \/ \E urlValid \in BOOLEAN, o \in Outcomes : get(urlValid, o)

\* One call of postRequest, retryablePostRequest or get. The loop of retry()
\* runs in the calling goroutine: each round blocks for at most the client
\* timeout and one sleep, so the round that is due is taken.
TransportSpec == TransportInit /\ [][TransportNext]_vars /\ WF_vars(TransportNext)

-----------------------------------------------------------------------------
(* Specification of the layer in local mode *)

LocalModeInit ==
    /\ apiValid \in BOOLEAN
    /\ ErrorBoundaryStart
    /\ localMode = TRUE
    /\ TransportStart
    /\ DiagnosticsStart

LocalModeNext ==
    \/ \E e \in Exceptions : logException(1, e)
    \/ logExceptionCheckSeen(1)
    \/ \E r \in SendResults : logExceptionSend(1, r)
    \/ \E encodable \in BOOLEAN : postRequest(encodable)
    \/ \E encodable \in BOOLEAN : retryablePostRequest(encodable, maxRetries)
    \/ \E urlValid \in BOOLEAN, o \in Outcomes : get(urlValid, o)

\* An SDK constructed with options.LocalMode set: exceptions are logged and
\* one call is made on the transport.
LocalModeSpec == LocalModeInit /\ [][LocalModeNext]_vars

-----------------------------------------------------------------------------
(* Specification of the diagnostics timelines *)

DiagInit ==
    /\ apiValid = TRUE
    /\ ErrorBoundaryStart
    /\ localMode = FALSE
    /\ TransportStart
    /\ DiagnosticsStart

DiagStep(g) ==
    \/ \E f \in Builders : mark(g, f, OverallStart)
    \/ markLock(g)
    \/ markAppend(g)

DiagNext ==
    \/ \E g \in Goroutines : DiagStep(g)
    \/ \E b \in Bases : serialize(b)
    \/ \E b \in Bases : clearMarkers(b)

\* Goroutines mark both timelines concurrently while the timelines are
\* serialized and cleared. The markers differ by the call and the timeline
\* only, and the clock stands still.
DiagSpec == DiagInit /\ [][DiagNext]_vars

-----------------------------------------------------------------------------
(* Specification of the builder shapes *)

ShapeNext ==
    \/ \E shape \in Shapes : mark(1, "initialize", shape)
    \/ markLock(1)
    \/ markAppend(1)

\* One goroutine marks the initialize timeline with builders of every shape,
\* one call after the other.
ShapeSpec == DiagInit /\ [][ShapeNext]_vars

-----------------------------------------------------------------------------
(* Specification of the timelines under a running clock *)

ClockStep(g) ==
    \/ \E f \in Builders : mark(g, f, OverallStart)
    \/ markLock(g)
    \/ markAppend(g)

ClockNext ==
    \/ \E g \in Goroutines : ClockStep(g)
    \/ Tick

\* Goroutines mark both timelines concurrently while the seconds pass.
ClockSpec == DiagInit /\ [][ClockNext]_vars

-----------------------------------------------------------------------------
(* Properties of the error boundary *)

RECURSIVE SumOver(_, _)
SumOver(f, S) ==
    IF S = {} THEN 0
    ELSE LET s == CHOOSE x \in S : TRUE IN f[s] + SumOver(f, S \ {s})

\* No call is in progress.
Quiescent == \A g \in Goroutines : frame[g].pc = "idle"

\* The strings logException was run with, by a direct call or from ebRecover.
Reported == {s \in Signatures : calls[s] > 0}

\* The call that finished last ran logException with string s.
LastRan(s) == last.op # "none" /\ last.exceptionString = s

\* C1 as stated: two logException calls in sequence with the same rendered
\* message s result in exactly one POST; the first call sends it and the
\* second sends nothing.
C1_ExactlyOnePost ==
    \A s \in Signatures :
        /\ calls[s] >= 2 => posts[s] = 1
        /\ LastRan(s) => (last.sent <=> calls[s] = 1)

\* C1 as amended: two logException calls in sequence with the same rendered
\* message result in at most one POST: the second call sends nothing, and the
\* first sends the POST exactly when the collector URL parses, so that the
\* request can be built.
C1_OnePostWhenUrlParses ==
    \A s \in Signatures :
        /\ calls[s] >= 2 => posts[s] = (IF apiValid THEN 1 ELSE 0)
        /\ LastRan(s) => (last.sent <=> (calls[s] = 1 /\ apiValid))

C1_Witness ==
    \E s \in Signatures :
        /\ calls[s] = 2 /\ posts[s] = 1
        /\ last.op = "logException" /\ last.exceptionString = s /\ ~last.sent

\* C2: under every interleaving of concurrent logException calls each
\* exception string is POSTed at most once: a string that was POSTed, or whose
\* report is being built, is in seen (nothing removes it), and only the one
\* call that inserted it gets to report it.
C2_AtMostOncePerSignature ==
    \A s \in Signatures :
        LET reporting == {g \in Goroutines :
                            frame[g].pc = "report" /\ frame[g].exceptionString = s} IN
        /\ posts[s] <= 1
        /\ posts[s] + Cardinality(reporting) <= 1
        /\ (posts[s] = 1 \/ reporting # {}) => s \in seen

C2_Witness ==
    \E g \in Goroutines :
        /\ frame[g].pc = "report"
        /\ LastRan(frame[g].exceptionString)
        /\ ~last.sent

\* C3 as stated: after any sequence of logException calls the number of POSTs
\* equals the number of distinct rendered messages among the calls.
C3_OnePostPerMessage ==
    Quiescent => SumOver(posts, Signatures) = Cardinality(Reported)

\* C3 as amended: the number of POSTs equals the number of distinct rendered
\* messages when the collector URL parses, and is zero when it does not.
C3_OnePostPerMessageWhenUrlParses ==
    Quiescent =>
        SumOver(posts, Signatures) = (IF apiValid THEN Cardinality(Reported) ELSE 0)

C3_Witness ==
    /\ Quiescent
    /\ Cardinality(Reported) = 2
    /\ SumOver(posts, Signatures) = 2

\* C4: a wrapper whose task panics returns normally with the zero value of its
\* result type, no panic reaches the caller, and a wrapper whose task returns
\* hands back the task's value, also after earlier panics.
C4_PanicNeverPropagates ==
    /\ \A g \in Goroutines : frame[g].pc # "crashed"
    /\ last.op \in Wrappers =>
          /\ last.returned = "normal"
          /\ last.res = (IF last.panicked THEN ZeroValue(last.op) ELSE last.task)

C4_Witness ==
    /\ SumOver(panics, Signatures) >= 1
    /\ last.op = "captureGetConfig"
    /\ ~last.panicked
    /\ last.returned = "normal"
    /\ last.res = "DynamicConfig{test_config}"

\* C5 as stated: every recovered panic produces one LogError call, and a task
\* that panics n times with the same message yields exactly one collector POST
\* and exactly n local log lines.
C5_LogEveryPanicPostOnce ==
    /\ (last.op \in Wrappers /\ last.panicked) => last.logged = 1
    /\ \A s \in Signatures :
          /\ logErrors[s] = panics[s]
          /\ panics[s] >= 1 => posts[s] = 1

\* C5 as amended: every recovered panic produces one LogError call; a task
\* that panics n times with the same message yields exactly n local log lines
\* and at most one collector POST: exactly one when the collector URL parses,
\* none when it does not.
C5_LogEveryPanicPostOnceWhenUrlParses ==
    /\ (last.op \in Wrappers /\ last.panicked) => last.logged = 1
    /\ \A s \in Signatures :
          /\ logErrors[s] = panics[s]
          /\ panics[s] >= 1 => posts[s] = (IF apiValid THEN 1 ELSE 0)

C5_Witness ==
    \E s \in Signatures :
        /\ panics[s] = 2 /\ logErrors[s] = 2 /\ posts[s] = 1
        /\ last.panicked /\ last.exceptionString = s /\ ~last.sent /\ last.logged = 1

-----------------------------------------------------------------------------
(* Properties of the transport *)

\* The call went into retry(): no local mode, and the payload encodes.
Sent ==
    /\ ~localMode
    /\ request.encodable
    /\ request.op \in {"postRequest", "retryablePostRequest"}

\* The exact product d * 10^n, as limbs without a width.
RECURSIVE WideMulLimbs(_, _, _)
WideMulLimbs(d, m, carry) ==
    IF d = <<>> THEN (IF carry = 0 THEN <<>> ELSE WideMulLimbs(<<carry>>, 1, 0))
    ELSE LET x == Head(d) * m + carry IN
         <<x % LimbBase>> \o WideMulLimbs(Tail(d), m, x \div LimbBase)

RECURSIVE TimesPowerOfTen(_, _)
TimesPowerOfTen(d, n) ==
    IF n = 0 THEN d ELSE WideMulLimbs(TimesPowerOfTen(d, n - 1), 10, 0)

RECURSIVE Trim(_)
Trim(d) ==
    IF d # <<>> /\ d[Len(d)] = 0 THEN Trim(SubSeq(d, 1, Len(d) - 1)) ELSE d

\* The duration d, an int64, is the number the limbs e spell.
IsExactly(d, e) == ~IsNegative(d) /\ Trim(d) = Trim(e)

\* The counts behind C6: never more than r+1 attempts; in the loop the
\* retries left and the attempts made add up to the budget; a call that went
\* into retry() made at least one attempt when it is done.
AttemptsBounded ==
    /\ attempts <= request.budget + 1
    /\ request.op = "postRequest" => request.budget = 0
    /\ tpc = "retry" => retries >= 0 /\ attempts + retries = request.budget
    /\ (tpc = "done" /\ Sent) => attempts >= 1
    /\ (tpc = "done" /\ classes = {"retry-eligible"}) =>
          /\ attempts = request.budget + 1
          /\ result.response = lastOutcome.response
          /\ result.err # "nil"

\* C6: a POST with retry budget r >= 0 makes at most r+1 attempts and then
\* terminates; when every attempt is answered by a retry-eligible status it
\* makes exactly r+1 attempts and returns the last response with an error;
\* postRequest has r = 0 and, once in retry(), makes exactly one attempt.
C6_BoundedAndTerminates ==
    /\ []AttemptsBounded
    /\ (tpc = "retry") ~> (tpc = "done")

C6_Witness ==
    /\ tpc = "done"
    /\ request.op = "retryablePostRequest"
    /\ request.budget = maxRetries
    /\ classes = {"retry-eligible"}
    /\ attempts = maxRetries + 1
    /\ result.response = Response(599)

\* C7: a sleep happens only between two attempts, the k-th sleep lasts
\* b * 10^(k-1), a call with n attempts sleeps n-1 times, and
\* retryablePostRequest starts from b = 1 second.
C7_SleepsBetweenAttempts ==
    /\ request.op = "retryablePostRequest" => request.backoff = Second
    /\ tpc = "retry" => Len(sleeps) = attempts
    /\ (tpc = "done" /\ attempts >= 1) => Len(sleeps) = attempts - 1
    /\ \A k \in 1..Len(sleeps) :
          IsExactly(sleeps[k], TimesPowerOfTen(request.backoff, k - 1))

\* The eleventh sleep of a call with initial backoff one second: ten exact
\* sleeps, then a duration that has wrapped below zero.
C7_Witness ==
    /\ request.op = "retryablePostRequest"
    /\ Len(sleeps) = 11
    /\ \A k \in 1..10 : IsExactly(sleeps[k], TimesPowerOfTen(Second, k - 1))
    /\ IsNegative(sleeps[11])

\* C8: a first response with a non-2xx status outside the retry-eligible set
\* ends the call at once: one attempt, no sleep, that response and an error.
C8_TerminalStatusNotRetried ==
    (attempts >= 1 /\ Class(firstOutcome) = "terminal") =>
        /\ tpc = "done"
        /\ attempts = 1
        /\ sleeps = <<>>
        /\ result.response = firstOutcome.response
        /\ result.err # "nil"

C8_Witness ==
    /\ request.op = "retryablePostRequest"
    /\ request.budget = maxRetries
    /\ firstOutcome.response = Response(404)
    /\ tpc = "done"
    /\ attempts = 1
    /\ result = [response |-> Response(404), err |-> "http response error code"]

\* C9: when the first k attempts are answered by retry-eligible statuses and
\* attempt k+1 by a 2xx, with k within the budget, the call makes exactly k+1
\* attempts and returns the 2xx response: a 2xx ends the call, and a call
\* answered only by retry-eligible statuses does not stop while budget remains.
C9_SuccessEndsTheCall ==
    /\ (attempts >= 1 /\ Class(lastOutcome) = "2xx") =>
          /\ tpc = "done"
          /\ result.response = lastOutcome.response
    /\ (firstOther.index > 0 /\ Class(firstOther.outcome) = "2xx") =>
          /\ tpc = "done"
          /\ attempts = firstOther.index
          /\ result.response = firstOther.outcome.response
    /\ (tpc = "done" /\ attempts >= 1 /\ firstOther.index = 0) =>
          attempts = request.budget + 1

C9_Witness ==
    /\ tpc = "done"
    /\ request.budget >= 2
    /\ firstOutcome.response = Response(503)
    /\ classes = {"retry-eligible", "2xx"}
    /\ firstOther = [index |-> 3,
                     outcome |-> [response |-> Response(200), err |-> "nil", json |-> TRUE]]
    /\ attempts = 3
    /\ result = [response |-> Response(200), err |-> "nil"]

\* C10: when every attempt of retryablePostRequest fails at transport level
\* (no response received), budget r gives r+1 attempts before the error is
\* returned.
C10_TransportErrorRetried ==
    (tpc = "done" /\ classes = {"transport error"}) =>
        attempts = request.budget + 1

\* A call with budget left that returned after one failed attempt.
C10_Witness ==
    /\ tpc = "done"
    /\ request.op = "retryablePostRequest"
    /\ request.budget = maxRetries
    /\ classes = {"transport error"}
    /\ attempts = 1
    /\ retries = maxRetries
    /\ sleeps = <<>>
    /\ result = [response |-> NilResponse, err |-> "transport error"]

\* C11: with localMode set, postRequest and retryablePostRequest return the
\* pair (nil response, nil error) whatever the payload and the retry budget,
\* never enter retry(), make no network call and do not sleep.
C11_LocalModeIsNoOp ==
    (localMode /\ request.op \in {"postRequest", "retryablePostRequest"}) =>
        /\ tpc = "done"
        /\ result = [response |-> NilResponse, err |-> "nil"]
        /\ attempts = 0
        /\ sleeps = <<>>

C11_Witness ==
    /\ localMode
    /\ tpc = "done"
    /\ request.op = "retryablePostRequest"
    /\ request.budget = maxRetries
    /\ request.encodable
    /\ result = [response |-> NilResponse, err |-> "nil"]
    /\ attempts = 0
    /\ sleeps = <<>>

\* The payload of the call does not encode as JSON.
Unencodable == request.op \in {"postRequest", "retryablePostRequest"} /\ ~request.encodable

\* C12 as stated: when the payload cannot be JSON-encoded the call returns a
\* non-nil error and makes no attempt and no retry, in every configuration of
\* the transport and for every budget.
C12_EncodeErrorReturned ==
    Unencodable =>
        /\ tpc = "done"
        /\ result.err # "nil"
        /\ attempts = 0
        /\ sleeps = <<>>

\* C12 as amended: when the payload cannot be JSON-encoded the call makes no
\* attempt and no retry in every configuration and for every budget; it
\* returns a non-nil error when localMode is not set, and (nil, nil) when it
\* is, because the localMode return comes before the encoding.
C12_EncodeErrorReturnedOutsideLocalMode ==
    Unencodable =>
        /\ tpc = "done"
        /\ attempts = 0
        /\ sleeps = <<>>
        /\ result.response = NilResponse
        /\ result.err = (IF localMode THEN "nil" ELSE "json encode error")

C12_Witness ==
    /\ ~localMode
    /\ tpc = "done"
    /\ request.op = "retryablePostRequest"
    /\ request.budget = maxRetries
    /\ ~request.encodable
    /\ result = [response |-> NilResponse, err |-> "json encode error"]
    /\ attempts = 0

-----------------------------------------------------------------------------
(* Properties of the diagnostics timelines *)

\* The calls whose markers a sequence holds, in order.
CallsOf(t) == [i \in 1..Len(t) |-> t[i].call]
CallSet(t) == {t[i].call : i \in 1..Len(t)}

\* Goroutine g is inside mark() on timeline b, at position pc.
Marking(g, b, pc) ==
    /\ g \in DOMAIN dframe
    /\ dframe[g].pc = pc
    /\ dframe[g].m.diagnostics = b

\* C13: the mark() calls that ended on a timeline since it was last cleared
\* (or created) each left exactly one entry in it: the timeline has as many
\* entries as calls ended, every call is there, and none is there twice,
\* under every interleaving of the writers.
C13_EveryMarkOneEntry ==
    \A b \in Bases :
        /\ Len(Timeline(b)) = Cardinality(finished[b])
        /\ CallSet(Timeline(b)) = finished[b]

\* Two calls that ended, and two writers inside mark() on the same timeline:
\* one holds the lock, the other waits for it.
C13_Witness ==
    \E b \in Bases, g1, g2 \in Goroutines :
        /\ Len(Timeline(b)) = 2
        /\ Cardinality(finished[b]) = 2
        /\ ~clean[b] /\ cleared[b] = {}
        /\ Marking(g1, b, "append")
        /\ Marking(g2, b, "lock")

\* A marker sits in the timeline its builder was created for.
InOwnTimeline ==
    \A b \in Bases : \A i \in 1..Len(Timeline(b)) :
        /\ Timeline(b)[i].diagnostics = b
        /\ Timeline(b)[i].builtBy = BuilderOf(b)

\* A step changes the markers of a timeline only when it is the append of a
\* mark() on that timeline, by a builder created for it, or clearMarkers()
\* on that timeline.
OnlyOwnOperations ==
    \A b \in Bases :
        Timeline(b)' # Timeline(b) =>
            \/ \E g \in Goroutines :
                  /\ Marking(g, b, "append")
                  /\ dframe[g].m.builtBy = BuilderOf(b)
                  /\ markAppend(g)
            \/ clearMarkers(b)

\* C14: the initialize and config_sync timelines are independent: mark() and
\* clearMarkers() on one leave the marker sequence of the other unchanged, and
\* a marker built from initialize() is only ever in the initialize timeline,
\* one built from configSync() only in the config_sync timeline.
C14_TimelinesIndependent ==
    /\ []InOwnTimeline
    /\ [][OnlyOwnOperations]_vars

\* The config_sync timeline was marked and cleared while the initialize
\* timeline kept its two entries.
C14_Witness ==
    /\ Len(Timeline("initDiagnostics")) = 2
    /\ cleared["initDiagnostics"] = {}
    /\ Timeline("syncDiagnostics") = <<>>
    /\ cleared["syncDiagnostics"] # {}
    /\ \E g \in Goroutines : Marking(g, "syncDiagnostics", "append")

\* C15: a serialize() that follows clearMarkers() with no mark() in between
\* returns the context of the timeline and no markers, however many entries
\* were cleared; the markers appended after a clear are none of the cleared
\* ones.
C15_ClearEmptiesTimeline ==
    /\ (snapshot.taken /\ snapshot.afterClear) =>
          /\ snapshot.context = ContextOf(snapshot.of)
          /\ snapshot.markers.len = 0
          /\ snapshot.held = <<>>
    /\ \A b \in Bases :
          /\ clean[b] => Timeline(b) = <<>>
          /\ CallSet(Timeline(b)) \cap cleared[b] = {}

\* Two entries were cleared, the serialize() after that returned nothing,
\* and a marker was appended since.
C15_Witness ==
    \E b \in Bases :
        /\ Cardinality(cleared[b]) = 2
        /\ snapshot.taken /\ snapshot.of = b /\ snapshot.afterClear
        /\ snapshot.context = ContextOf(b)
        /\ snapshot.markers.len = 0
        /\ Len(Timeline(b)) = 1

\* C16: the markers a snapshot shows are, at any later time, the markers the
\* timeline held when serialize() returned, in the same order and with the
\* same field values, whatever mark() and clearMarkers() calls followed; its
\* context tag is the one of the timeline.
C16_SnapshotNeverChanges ==
    snapshot.taken =>
        /\ SnapshotMarkers = snapshot.held
        /\ snapshot.context = ContextOf(snapshot.of)

\* The snapshot shares its backing array with the timeline, and a later
\* mark() appended in place, into that array.
C16_Witness ==
    /\ snapshot.taken
    /\ Len(snapshot.held) = 3
    /\ base[snapshot.of].markers.arr = snapshot.markers.arr
    /\ base[snapshot.of].markers.len = 4
    /\ SnapshotMarkers = snapshot.held

\* What one step does to each timeline: nothing, or the append of one mark()
\* at the end, or the removal of all entries by clearMarkers().
AppendOrClear ==
    \A b \in Bases :
        \/ Timeline(b)' = Timeline(b)
        \/ \E g \in Goroutines :
              /\ Marking(g, b, "append")
              /\ markAppend(g)
              /\ Timeline(b)' = Append(Timeline(b), dframe[g].m)
        \/ clearMarkers(b) /\ Timeline(b)' = <<>>

\* The entries are the calls that took the lock since the last clear, in that
\* order, less the one call that holds the lock and has not appended yet.
InLockOrder ==
    \A b \in Bases :
        CallsOf(Timeline(b)) =
            (IF mu[b] = 0 THEN lockOrder[b]
             ELSE SubSeq(lockOrder[b], 1, Len(lockOrder[b]) - 1))

\* C17: each timeline is append-only between clears: a mark() adds one entry
\* at the end and leaves the earlier ones as they were, the order of the
\* entries is the order in which the mark() calls took the write lock, and
\* only clearMarkers() removes entries.
C17_AppendOnlyInLockOrder ==
    /\ []InLockOrder
    /\ [][AppendOrClear]_vars

\* An entry was cleared; two entries since, in lock order, and a further
\* call that holds the lock and has not appended yet.
C17_Witness ==
    \E b \in Bases, g \in Goroutines :
        /\ cleared[b] = {1}
        /\ CallsOf(Timeline(b)) = <<2, 3>>
        /\ lockOrder[b] = <<2, 3, 4>>
        /\ mu[b] = g
        /\ Marking(g, b, "append")

-----------------------------------------------------------------------------
(* Properties of the instrumented wrappers and of local mode *)

Keys == {"check_gate", "get_config", "get_layer"}

\* The start markers and the end markers marked for key k so far.
Starts(k) == apiMarkers[StartMarker(k)]
Ends(k) == apiMarkers[EndMarker(k, "true")] + apiMarkers[EndMarker(k, "false")]

\* The calls of the wrapper of key k that are in progress.
Running(k) ==
    {g \in Goroutines : frame[g].marks # <<>> /\ frame[g].marks[1].key = k}

\* C18: a call of captureCheckGate, captureGetConfig or captureGetLayer
\* marks exactly one start marker and then exactly one end marker of its
\* operation, with success=true when the task returned and success=false when
\* it panicked; a call in progress has marked its start marker only, so the
\* end markers of an operation never outnumber its start markers.
C18_OneStartThenOneEnd ==
    /\ last.op \in DiagnosticWrappers =>
          last.marks = <<StartMarker(WrapperKey(last.op)),
                         EndMarker(WrapperKey(last.op),
                                   IF last.panicked THEN "false" ELSE "true")>>
    /\ \A g \in Goroutines :
          frame[g].op \in DiagnosticWrappers =>
              frame[g].marks = <<StartMarker(WrapperKey(frame[g].op))>>
    /\ \A k \in Keys :
          LET starts == Starts(k)
              ends == Ends(k) IN
          /\ ends <= starts
          /\ starts = ends + Cardinality(Running(k))

\* Two calls of captureCheckGate: one returned, the last one panicked.
C18_Witness ==
    /\ last.op = "captureCheckGate"
    /\ last.panicked
    /\ last.marks = <<StartMarker("check_gate"), EndMarker("check_gate", "false")>>
    /\ apiMarkers[StartMarker("check_gate")] = 2
    /\ apiMarkers[EndMarker("check_gate", "true")] = 1
    /\ apiMarkers[EndMarker("check_gate", "false")] = 1

\* C19 as stated: when the task of an instrumented wrapper panics, the end
\* marker with success=false is in the timeline before the failure is reported
\* to the collector: when the call builds the report, and once it has sent it,
\* its end marker is marked.
C19_EndMarkerBeforeReport ==
    \A g \in Goroutines :
        (/\ frame[g].op \in DiagnosticWrappers
         /\ frame[g].panicked
         /\ frame[g].pc = "report" \/ frame[g].sent) =>
            /\ Len(frame[g].marks) = 2
            /\ frame[g].marks[2] = EndMarker(WrapperKey(frame[g].op), "false")

\* C19 as amended: when the task of an instrumented wrapper panics, the
\* failure is reported to the collector before the end marker with
\* success=false is appended: the order is recover, report, then log and mark
\* end-failure. Until its last step the call has marked its start marker only,
\* also when its report is sent; when it ends it has logged the error and
\* marked the end marker.
C19_ReportBeforeEndMarker ==
    /\ \A g \in Goroutines :
          (frame[g].op \in DiagnosticWrappers /\ frame[g].panicked) =>
              /\ frame[g].marks = <<StartMarker(WrapperKey(frame[g].op))>>
              /\ frame[g].logged = 0
              /\ frame[g].sent => frame[g].pc = "logError"
    /\ (last.op \in DiagnosticWrappers /\ last.panicked) =>
          /\ last.logged = 1
          /\ Len(last.marks) = 2
          /\ last.marks[2] = EndMarker(WrapperKey(last.op), "false")

\* The report of a panic in captureCheckGate is sent and the timeline holds
\* no end marker of the call yet.
C19_Witness ==
    \E g \in Goroutines :
        /\ frame[g].op = "captureCheckGate"
        /\ frame[g].panicked
        /\ frame[g].pc = "logError"
        /\ frame[g].sent
        /\ posts[frame[g].exceptionString] = 1
        /\ frame[g].marks = <<StartMarker("check_gate")>>
        /\ Ends("check_gate") = 0

\* C20: with local mode set nothing goes out: no request is handed to
\* client.Do by the transport, get returns no response and no error, and
\* logException sends no POST.
C20_NoOutboundCallInLocalMode ==
    localMode =>
        /\ attempts = 0
        /\ (request.op = "get" /\ tpc = "done") =>
              result = [response |-> NilResponse, err |-> "nil"]
        /\ \A s \in Signatures : posts[s] = 0

\* In local mode, get returned the answer of a server and logException sent
\* a report.
C20_Witness ==
    /\ localMode
    /\ request.op = "get"
    /\ tpc = "done"
    /\ attempts = 1
    /\ result = [response |-> Response(200), err |-> "nil"]
    /\ posts["boom"] = 1

-----------------------------------------------------------------------------
(* Properties of the builder shapes *)

\* C21: every mark() call of a builder that has a key and an action ends
\* normally, whatever the key and whether or not a step and a success tag
\* were set, and each call that ended left exactly one entry in the timeline.
C21_MarkNeverFails ==
    /\ dlast # "panic"
    /\ \A b \in Bases :
          /\ Len(Timeline(b)) = Cardinality(finished[b])
          /\ CallSet(Timeline(b)) = finished[b]

\* A builder with key download_config_specs and action start, and no step:
\* its mark() appended the entry, panicked in logProcess on the nil Step, and
\* the deferred Unlock released the lock.
C21_Witness ==
    /\ dlast = "panic"
    /\ 1 \notin DOMAIN dframe
    /\ mu["initDiagnostics"] = 0
    /\ Len(Timeline("initDiagnostics")) = 1
    /\ Timeline("initDiagnostics")[1].Key = "download_config_specs"
    /\ Timeline("initDiagnostics")[1].Action = "start"
    /\ Timeline("initDiagnostics")[1].Step = "unset"

-----------------------------------------------------------------------------
(* Properties of the timelines under a running clock *)

\* The timestamps of a sequence of markers never go down.
NonDecreasing(t) == \A i, j \in 1..Len(t) : i < j => t[i].Timestamp <= t[j].Timestamp

\* C22 as stated: along every timeline the timestamps are non-decreasing,
\* also when several writers call mark() concurrently.
C22_TimestampsNonDecreasing == \A b \in Bases : NonDecreasing(Timeline(b))

\* C22: along a timeline the timestamps are non-decreasing as long as no
\* mark() call on it stamped its marker while another call on it, stamped at
\* an earlier second, had not appended its entry yet: writers whose calls do
\* not overlap, or overlap within one second, leave the timestamps in order.
C22_TimestampsNonDecreasingUnlessRaced ==
    \A b \in Bases : ~raced[b] => NonDecreasing(Timeline(b))

\* Two calls on one timeline that ended a second apart, and a third call,
\* stamped in the same second as the last of them, waiting for the lock.
C22_Witness ==
    \E b \in Bases, g \in Goroutines :
        /\ ~raced[b]
        /\ Len(Timeline(b)) = 2
        /\ Timeline(b)[1].Timestamp = 0
        /\ Timeline(b)[2].Timestamp = 1000
        /\ Marking(g, b, "lock")
        /\ dframe[g].m.Timestamp = 1000

-----------------------------------------------------------------------------
(* Properties of the reports that fail *)

\* A report is built and sent only after its signature was put in seen, a
\* signature is sent at most once, and never when the URL does not parse.
SeenBeforePost ==
    /\ \A g \in Goroutines : frame[g].pc = "report" => frame[g].exceptionString \in seen
    /\ \A s \in Signatures :
          /\ posts[s] <= 1
          /\ posts[s] = 1 => s \in seen
          /\ s \in sendErrors => posts[s] = 1
          /\ ~apiValid => posts[s] = 0

\* No step takes a signature out of seen, and a step that sends the report
\* of a signature is the first send of it: none failed before.
NeverRemovedNeverResent ==
    /\ seen \subseteq seen'
    /\ \A s \in Signatures :
          posts'[s] # posts[s] => (s \in seen /\ posts[s] = 0 /\ s \notin sendErrors)

\* C23: logException inserts the signature into seen before the POST is
\* attempted and never removes it, whatever the outcome: when the report
\* cannot be built or its send fails, the signature stays in seen and a later
\* logException with the same message sends nothing.
C23_FailedReportNeverResent == []SeenBeforePost /\ [][NeverRemovedNeverResent]_vars

\* The report of "boom" was sent once and not delivered, and a second
\* logException with the same message has returned.
C23_Witness ==
    /\ apiValid
    /\ "boom" \in sendErrors
    /\ "boom" \in seen
    /\ posts["boom"] = 1
    /\ calls["boom"] = 2
    /\ last.op = "logException"
    /\ ~last.sent

====
